---- MODULE Spec2Model ----
(***************************************************************************)
(* arco_era5/update_config_files.py: the rolling date window, the          *)
(* credential text, the rewrite of the weather-dl config files and the     *)
(* removal of the credential sections.                                     *)
(*                                                                         *)
(* Python strings are sequences of one-character strings, so that slicing, *)
(* splitting, stripping and the substring test are computed as the code    *)
(* computes them.  The empty sequence stands for None and for "".          *)
(***************************************************************************)
EXTENDS Integers, Sequences, FiniteSets, TLC

VARIABLES
    disk,    \* the config files: path -> [fmt, sections]
    pre,     \* the disk as it was when the last operation started
    inj,     \* per file, its content before and after the last injection that was written
    last,    \* the last operation: its arguments, its inputs and how it ended
    steps,   \* how many operations ran
    today,   \* what datetime.date.today() returned in the last run
    mode,    \* the mode argument of the last run
    dates    \* the MonthDates of the last run (NoDates before any run)

vars == <<disk, pre, inj, last, steps, today, mode, dates>>

-----------------------------------------------------------------------------
(* Bounds of the model.                                                    *)

FirstYear == 2023
LastYear == 2024

-----------------------------------------------------------------------------
(* ExecTypes (arco_era5/utils.py): the three execution modes.              *)

ERA5 == <<"E", "R", "A", "5">>
ERA5T_DAILY == <<"E", "R", "A", "5", "T", "_", "D", "A", "I", "L", "Y">>
ERA5T_MONTHLY == <<"E", "R", "A", "5", "T", "_", "M", "O", "N", "T", "H", "L", "Y">>
ExecTypes == {ERA5, ERA5T_DAILY, ERA5T_MONTHLY}

\* a mode string that is none of the three
OTHER_MODE == <<"O", "T", "H", "E", "R">>

-----------------------------------------------------------------------------
(* datetime.date: the proleptic Gregorian calendar, by ordinals.           *)

Date(y, m, d) == [year |-> y, month |-> m, day |-> d]

is_leap(y) == y % 4 = 0 /\ (y % 100 # 0 \/ y % 400 = 0)

DAYS_IN_MONTH == <<31, 28, 31, 30, 31, 30, 31, 31, 30, 31, 30, 31>>

DAYS_BEFORE_MONTH == <<0, 31, 59, 90, 120, 151, 181, 212, 243, 273, 304, 334>>

days_in_month(y, m) == IF m = 2 /\ is_leap(y) THEN 29 ELSE DAYS_IN_MONTH[m]

days_before_year(y) ==
    LET p == y - 1 IN p * 365 + (p \div 4) - (p \div 100) + (p \div 400)

days_before_month(y, m) ==
    DAYS_BEFORE_MONTH[m] + (IF m > 2 /\ is_leap(y) THEN 1 ELSE 0)

\* date.toordinal(): 0001-01-01 is day 1.
toordinal(d) == days_before_year(d.year) + days_before_month(d.year, d.month) + d.day

\* date.fromordinal(n): the 400/100/4/1-year cycle decomposition.
fromordinal(ord) ==
    LET n0   == ord - 1
        n400 == n0 \div 146097
        r400 == n0 % 146097
        n100 == r400 \div 36524
        r100 == r400 % 36524
        n4   == r100 \div 1461
        r4   == r100 % 1461
        n1   == r4 \div 365
        n    == r4 % 365
        y    == n400 * 400 + 1 + n100 * 100 + n4 * 4 + n1
        leap == n1 = 3 /\ (n4 # 24 \/ n100 = 3)
        m0   == (n + 50) \div 32
        p0   == DAYS_BEFORE_MONTH[m0] + (IF m0 > 2 /\ leap THEN 1 ELSE 0)
        m    == IF p0 > n THEN m0 - 1 ELSE m0
        p    == IF p0 > n
                THEN p0 - (DAYS_IN_MONTH[m] + (IF m = 2 /\ leap THEN 1 ELSE 0))
                ELSE p0
    IN  IF n1 = 4 \/ n100 = 4
        THEN Date(y - 1, 12, 31)
        ELSE Date(y, m, n - p + 1)

\* minus_days without the carry into the month before
minus_days_within_month(d, k) == Date(d.year, d.month, IF d.day > k THEN d.day - k ELSE 1)

\* date - datetime.timedelta(days=k)
minus_days(d, k) == fromordinal(toordinal(d) - k)

\* date.replace(day=k)
replace_day(d, k) == [d EXCEPT !.day = k]

-----------------------------------------------------------------------------
(* str(date) and the slices taken of it.                                   *)

DigitChars == <<"0", "1", "2", "3", "4", "5", "6", "7", "8", "9">>

RECURSIVE zero_pad(_, _)
\* "%0<width>d" % n
zero_pad(n, width) ==
    IF width = 0 /\ n = 0
    THEN <<>>
    ELSE Append(zero_pad(n \div 10, IF width = 0 THEN 0 ELSE width - 1),
                DigitChars[(n % 10) + 1])

\* str(date) == date.isoformat() == "%04d-%02d-%02d"
date_str(d) ==
    zero_pad(d.year, 4) \o <<"-">> \o zero_pad(d.month, 2) \o <<"-">> \o zero_pad(d.day, 2)

\* s[a:b] with 0 <= a <= b (Python slice, clipped to the string)
slice(s, a, b) ==
    LET hi == IF b > Len(s) THEN Len(s) ELSE b
    IN  IF a >= hi THEN <<>> ELSE SubSeq(s, a + 1, hi)

-----------------------------------------------------------------------------
(* The window calculator.                                                  *)

\* get_month_range as the month of the date itself
get_month_range_of_date(date) ==
    <<replace_day(date, 1), replace_day(date, days_in_month(date.year, date.month))>>

get_month_range(date) ==
    LET last_day  == minus_days(replace_day(date, 1), 1)
        first_day == replace_day(last_day, 1)
    IN  <<first_day, last_day>>

\* get_previous_month_dates with the month sliced one character early
get_previous_month_dates_early_slice(m, t) ==
    LET third_prev_month ==
            IF m = ERA5T_DAILY THEN minus_days(t, 6)
            ELSE IF m = ERA5T_MONTHLY THEN t
            ELSE minus_days(t, (2 * 366) \div 12)
        range == IF m = ERA5T_DAILY
                 THEN <<third_prev_month, third_prev_month>>
                 ELSE get_month_range(third_prev_month)
        first_day == range[1]
        last_day  == range[2]
    IN  [first_day |-> first_day,
         last_day  |-> last_day,
         sl_year   |-> slice(date_str(first_day), 0, 4),
         sl_month  |-> slice(date_str(first_day), 4, 6)]

get_previous_month_dates(m, t) ==
    LET third_prev_month ==
            IF m = ERA5T_DAILY THEN minus_days(t, 6)
            ELSE IF m = ERA5T_MONTHLY THEN t
            ELSE minus_days(t, (2 * 366) \div 12)
        range == IF m = ERA5T_DAILY
                 THEN <<third_prev_month, third_prev_month>>
                 ELSE get_month_range(third_prev_month)
        first_day == range[1]
        last_day  == range[2]
    IN  [first_day |-> first_day,
         last_day  |-> last_day,
         sl_year   |-> slice(date_str(first_day), 0, 4),
         sl_month  |-> slice(date_str(first_day), 5, 7)]

NoDates ==
    [first_day |-> Date(1, 1, 1), last_day |-> Date(1, 1, 1),
     sl_year |-> <<>>, sl_month |-> <<>>]

-----------------------------------------------------------------------------
(* Python str operations.                                                  *)

RECURSIVE find(_, _, _)
\* the 1-based index of the first occurrence of sub in s at or after i; 0 if none
find(s, sub, i) ==
    IF i + Len(sub) - 1 > Len(s) THEN 0
    ELSE IF SubSeq(s, i, i + Len(sub) - 1) = sub THEN i
    ELSE find(s, sub, i + 1)

\* sub in s
contains(sub, s) == find(s, sub, 1) # 0

RECURSIVE split(_, _)
\* s.split(sep)
split(s, sep) ==
    LET cut(i) ==
            IF i = 0 THEN <<s>>
            ELSE <<SubSeq(s, 1, i - 1)>> \o split(SubSeq(s, i + Len(sep), Len(s)), sep)
    IN  cut(find(s, sep, 1))

RECURSIVE replace(_, _, _)
\* s.replace(old, new): every occurrence, left to right
replace(s, old, new) ==
    LET cut(i) ==
            IF i = 0 THEN s
            ELSE SubSeq(s, 1, i - 1) \o new
                 \o replace(SubSeq(s, i + Len(old), Len(s)), old, new)
    IN  cut(find(s, old, 1))

Whitespace == {" ", "\t", "\n", "\r", "\f"}

RECURSIVE lstrip(_)
lstrip(s) == IF s # <<>> /\ Head(s) \in Whitespace THEN lstrip(Tail(s)) ELSE s

RECURSIVE rstrip(_)
rstrip(s) ==
    IF s # <<>> /\ s[Len(s)] \in Whitespace THEN rstrip(SubSeq(s, 1, Len(s) - 1)) ELSE s

\* s.strip()
strip(s) == rstrip(lstrip(s))

\* s.endswith(suffix)
endswith(s, suffix) ==
    Len(s) >= Len(suffix) /\ SubSeq(s, Len(s) - Len(suffix) + 1, Len(s)) = suffix

UpperChars == <<"A", "B", "C", "D", "E", "F", "G", "H", "I", "J", "K", "L", "M",
                "N", "O", "P", "Q", "R", "S", "T", "U", "V", "W", "X", "Y", "Z">>

LowerChars == <<"a", "b", "c", "d", "e", "f", "g", "h", "i", "j", "k", "l", "m",
                "n", "o", "p", "q", "r", "s", "t", "u", "v", "w", "x", "y", "z">>

RECURSIVE lower(_)
\* s.lower()
lower(s) ==
    IF s = <<>> THEN <<>>
    ELSE <<IF \E j \in 1..26 : UpperChars[j] = Head(s)
           THEN LowerChars[CHOOSE j \in 1..26 : UpperChars[j] = Head(s)]
           ELSE Head(s)>> \o lower(Tail(s))

\* str(n) for n >= 0
int_str(n) == zero_pad(n, 1)

-----------------------------------------------------------------------------
(* Names that appear in the code.                                          *)

S_parameters == <<"p", "a", "r", "a", "m", "e", "t", "e", "r", "s">>
S_selection == <<"s", "e", "l", "e", "c", "t", "i", "o", "n">>
S_target_path == <<"t", "a", "r", "g", "e", "t", "_", "p", "a", "t", "h">>
S_year == <<"y", "e", "a", "r">>
S_month == <<"m", "o", "n", "t", "h">>
S_day == <<"d", "a", "y">>
S_all == <<"a", "l", "l">>
S_to == <<"/", "t", "o", "/">>
S_api_url == <<"a", "p", "i", "_", "u", "r", "l">>
S_api_key == <<"a", "p", "i", "_", "k", "e", "y">>
S_parameters_api == <<"p", "a", "r", "a", "m", "e", "t", "e", "r", "s", ".", "a", "p", "i">>
S_cfg == <<".", "c", "f", "g">>
S_lnsp == <<"l", "n", "s", "p">>
S_zs == <<"z", "s">>
S_sfc == <<"s", "f", "c">>
RAW_PREFIX ==
    <<"g", "s", ":", "/", "/", "g", "c", "p", "-", "p", "u", "b", "l", "i", "c", "-",
      "d", "a", "t", "a", "-", "a", "r", "c", "o", "-", "e", "r", "a", "5", "/", "r", "a", "w">>

FILES_TO_UPDATE(m) ==
    IF m = ERA5
    THEN <<(<<"d", "v", "e">>), (<<"o", "3", "q">>), (<<"q", "r", "q", "s">>),
           (<<"t", "w">>), (<<"p", "l">>), (<<"s", "l">>), S_lnsp, S_zs, S_sfc>>
    ELSE IF m = ERA5T_DAILY
    THEN <<(<<"d", "v", "e">>), (<<"o", "3", "q">>), (<<"q", "r", "q", "s">>),
           (<<"t", "w">>), (<<"p", "l">>), (<<"s", "l">>)>>
    ELSE <<S_lnsp, S_zs, S_sfc>>

-----------------------------------------------------------------------------
(* The credential assembler.                                               *)
(* The environment is the sequence of its variables, in iteration order,   *)
(* each a [name, value]; a value is an opaque secret reference.            *)

\* the pattern without its final $: ^API_KEY_\d+
API_KEY_PATTERN_open_end(name) ==
    /\ Len(name) > 8
    /\ SubSeq(name, 1, 8) = <<"A", "P", "I", "_", "K", "E", "Y", "_">>
    /\ \E j \in 1..10 : DigitChars[j] = name[9]

\* API_KEY_PATTERN.match(name): ^API_KEY_\d+$, where $ also matches before a final newline
API_KEY_PATTERN(name) ==
    LET body == IF name # <<>> /\ name[Len(name)] = "\n"
                THEN SubSeq(name, 1, Len(name) - 1)
                ELSE name
    IN  \E k \in {Len(body), Len(name)} :
            /\ k > 8
            /\ SubSeq(name, 1, 8) = <<"A", "P", "I", "_", "K", "E", "Y", "_">>
            /\ \A i \in 9..k : \E j \in 1..10 : DigitChars[j] = name[i]

RECURSIVE get_api_keys(_)
get_api_keys(environ) ==
    IF environ = <<>> THEN <<>>
    ELSE (IF API_KEY_PATTERN(Head(environ).name) THEN <<Head(environ).value>> ELSE <<>>)
         \o get_api_keys(Tail(environ))

\* What the secret store holds: reference -> the JSON object of the secret.
SecretStore ==
    [refA |-> [api_url |-> <<"h", "t", "t", "p", "s", ":", "/", "/", "c", "d", "s">>,
               api_key |-> <<"1", ":", "a", "b">>],
     refB |-> [api_url |-> <<"h", "t", "t", "p", "s", ":", "/", "/", "a", "d", "s">>,
               api_key |-> <<"2", ":", "c", "d">>]]

\* get_secret(secret_key): the store's answer, or the error it raises when the
\* reference is one of `down` (unreachable store, invalid reference).
get_secret(secret_key, down) ==
    IF secret_key \in down
    THEN [error |-> "SecretResolutionError", value |-> SecretStore.refA]
    ELSE [error |-> "", value |-> SecretStore[secret_key]]

RECURSIVE generate_loop_skip_failed(_, _, _, _)
\* generate_loop that passes over a secret that does not resolve
generate_loop_skip_failed(api_key_list, count, down, additional_content) ==
    IF api_key_list = <<>>
    THEN [error |-> "", text |-> additional_content]
    ELSE LET secret_key_value == get_secret(Head(api_key_list), down)
         IN  IF secret_key_value.error # ""
             THEN generate_loop_skip_failed(Tail(api_key_list), count + 1, down,
                                            additional_content)
             ELSE generate_loop_skip_failed(Tail(api_key_list), count + 1, down,
                    additional_content
                        \o S_parameters_api \o int_str(count) \o <<"\n">>
                        \o <<" ", " ", " ", " ", " ", " ", " ", " ", " ", " ", " ", " ">>
                        \o S_api_url \o <<"=">> \o secret_key_value.value.api_url
                        \o <<"\n">> \o S_api_key \o <<"=">> \o secret_key_value.value.api_key
                        \o <<"\n", "\n">>)

RECURSIVE generate_loop(_, _, _, _)
generate_loop(api_key_list, count, down, additional_content) ==
    IF api_key_list = <<>>
    THEN [error |-> "", text |-> additional_content]
    ELSE LET secret_key_value == get_secret(Head(api_key_list), down)
         IN  IF secret_key_value.error # ""
             THEN [error |-> secret_key_value.error, text |-> <<>>]
             ELSE generate_loop(Tail(api_key_list), count + 1, down,
                    additional_content
                        \o S_parameters_api \o int_str(count) \o <<"\n">>
                        \o <<" ", " ", " ", " ", " ", " ", " ", " ", " ", " ", " ", " ">>
                        \o S_api_url \o <<"=">> \o secret_key_value.value.api_url
                        \o <<"\n">> \o S_api_key \o <<"=">> \o secret_key_value.value.api_key
                        \o <<"\n", "\n">>)

generate_additional_content(environ, down) ==
    generate_loop(get_api_keys(environ), 0, down, <<>>)

-----------------------------------------------------------------------------
(* configparser.ConfigParser: the sections in file order, each a name   *)
(* and its options in order, each a [key, value].                          *)

Option(key, value) == [key |-> key, value |-> value]

Section(name, options) == [name |-> name, options |-> options]

has_section(config, section) == \E i \in 1..Len(config) : config[i].name = section

\* the options of a section that exists
options_of(config, section) ==
    config[CHOOSE i \in 1..Len(config) : config[i].name = section].options

has_key(options, key) == \E i \in 1..Len(options) : options[i].key = key

has_option(config, section, option) ==
    has_section(config, section) /\ has_key(options_of(config, section), option)

\* config.get(section, option) of an option that exists (interpolation=None)
config_get(config, section, option) ==
    LET options == options_of(config, section)
    IN  options[CHOOSE i \in 1..Len(options) : options[i].key = option].value

\* RawConfigParser.optionxform
optionxform(option) == lower(option)

RECURSIVE set_key(_, _, _)
\* dict assignment: an existing key keeps its place, a new one goes last
set_key(options, key, value) ==
    IF options = <<>> THEN <<Option(key, value)>>
    ELSE IF Head(options).key = key THEN <<Option(key, value)>> \o Tail(options)
    ELSE <<Head(options)>> \o set_key(Tail(options), key, value)

RECURSIVE config_set(_, _, _, _)
\* config.set(section, option, value) on an existing section
config_set(config, section, option, value) ==
    IF config = <<>> THEN <<>>
    ELSE IF Head(config).name = section
    THEN <<Section(section, set_key(Head(config).options, optionxform(option), value))>>
         \o Tail(config)
    ELSE <<Head(config)>> \o config_set(Tail(config), section, option, value)

\* config.add_section(section) on a name that is not yet a section
add_section(config, section) == Append(config, Section(section, <<>>))

RECURSIVE remove_section(_, _)
\* config.remove_section(section): no error when the section is absent
remove_section(config, section) ==
    IF config = <<>> THEN <<>>
    ELSE IF Head(config).name = section THEN Tail(config)
    ELSE <<Head(config)>> \o remove_section(Tail(config), section)

\* config.write(file, space_around_delimiters=False): the file is the
\* parser's rendering of the sections, no longer the text as authored.
written(config) == [fmt |-> "written", sections |-> config]

-----------------------------------------------------------------------------
(* The config mutator.                                                     *)

Raise(e, config) == [error |-> e, config |-> config]

Return(config) == [error |-> "", config |-> config]

\* one pass of the loop body: the section named by the first line of the
\* segment, api_url from its second line and api_key from its third
add_credential(config, sections) ==
    LET add(new_section_name, api_url, api_key) ==
            IF has_section(config, new_section_name)
            THEN Raise("DuplicateSectionError", config)
            ELSE IF Len(sections) < 2 THEN Raise("IndexError", config)
            ELSE IF Len(api_url) # 2 THEN Raise("ValueError", config)
            ELSE IF Len(sections) < 3 THEN Raise("IndexError", config)
            ELSE IF Len(api_key) # 2 THEN Raise("ValueError", config)
            ELSE Return(
                    config_set(
                        config_set(add_section(config, new_section_name),
                                   new_section_name, strip(api_url[1]), strip(api_url[2])),
                        new_section_name, strip(api_key[1]), strip(api_key[2])))
    IN  add(strip(sections[1]),
            IF Len(sections) < 2 THEN <<>> ELSE split(sections[2], <<"=">>),
            IF Len(sections) < 3 THEN <<>> ELSE split(sections[3], <<"=">>))

RECURSIVE add_credentials(_, _)
\* for section in sections_list: ...; the first error raised ends the loop
add_credentials(config, sections_list) ==
    LET continue(r) ==
            IF r.error # "" THEN r ELSE add_credentials(r.config, Tail(sections_list))
    IN  IF sections_list = <<>>
        THEN Return(config)
        ELSE continue(add_credential(config, split(Head(sections_list), <<"\n">>)))

\* if temp_path: the target below the raw bucket moves below temp_path
retarget(config, temp_path) ==
    IF temp_path = <<>> THEN Return(config)
    ELSE IF ~has_section(config, S_parameters) THEN Raise("NoSectionError", config)
    ELSE IF ~has_option(config, S_parameters, S_target_path)
    THEN Raise("NoOptionError", config)
    ELSE Return(config_set(config, S_parameters, S_target_path,
                    replace(config_get(config, S_parameters, S_target_path),
                            RAW_PREFIX, temp_path)))

\* if year_wise_date: year, month, day; else: the date range
set_dates(config, field_name, config_args) ==
    IF ~has_section(config, S_selection) THEN Raise("NoSectionError", config)
    ELSE IF config_args.year_wise_date
    THEN Return(config_set(
                    config_set(
                        config_set(config, S_selection, S_year, config_args.sl_year),
                        S_selection, S_month, config_args.sl_month),
                    S_selection, S_day, S_all))
    ELSE Return(config_set(config, S_selection, field_name,
                    date_str(config_args.first_day) \o S_to
                        \o date_str(config_args.last_day)))

\* additional_content.split("\n\n")[:-1]
sections_of(additional_content) ==
    LET all_but_last(sections_list) == SubSeq(sections_list, 1, Len(sections_list) - 1)
    IN  all_but_last(split(additional_content, <<"\n", "\n">>))

\* new_config_file that writes the file before it adds the sections
new_config_file_write_first(config_file, field_name, additional_content, config_args, temp_path) ==
    LET license(r) ==
            LET write(l) ==
                    IF l.error # ""
                    THEN [error |-> l.error, file |-> written(r.config)]
                    ELSE [error |-> "", file |-> written(l.config)]
            IN  IF r.error # ""
                THEN [error |-> r.error, file |-> config_file]
                ELSE write(add_credentials(r.config, sections_of(additional_content)))
        date(r) ==
            IF r.error # "" THEN r ELSE set_dates(r.config, field_name, config_args)
    IN  license(date(retarget(config_file.sections, temp_path)))

\* new_config_file on a file whose content is config_file: the error raised
\* ("" when none) and the content the file has afterwards.  The file is
\* written last, so an error leaves it as it was.
new_config_file(config_file, field_name, additional_content, config_args, temp_path) ==
    LET write(r) ==
            IF r.error # ""
            THEN [error |-> r.error, file |-> config_file]
            ELSE [error |-> "", file |-> written(r.config)]
        license(r) ==
            IF r.error # "" THEN r
            ELSE add_credentials(r.config, sections_of(additional_content))
        date(r) ==
            IF r.error # "" THEN r ELSE set_dates(r.config, field_name, config_args)
    IN  write(license(date(retarget(config_file.sections, temp_path))))

\* A path of the tree: <directory>/<sub>/<name>.
path_str(f) == f.dir \o <<"/">> \o f.sub \o <<"/">> \o f.name

\* glob.glob(f"{directory}/{sub_pattern}/*.cfg"); sub_pattern "*" is any
\* sub-directory; a wildcard does not match a leading dot.
glob(d, directory, sub_pattern) ==
    {f \in DOMAIN d :
        /\ f.dir = directory
        /\ IF sub_pattern = <<"*">> THEN Head(f.sub) # "." ELSE f.sub = sub_pattern
        /\ endswith(f.name, S_cfg)
        /\ Head(f.name) # "."}

\* any(chunk in filename for chunk in files_to_update)
any_chunk_in(files_to_update, filename) ==
    \E i \in 1..Len(files_to_update) : contains(files_to_update[i], filename)

year_wise(filename) ==
    contains(S_lnsp, filename) \/ contains(S_zs, filename) \/ contains(S_sfc, filename)

RECURSIVE update_loop_from(_, _, _, _, _, _, _, _, _)
\* the loop with year_wise_date carried over from one file to the next
update_loop_from(all_files, d, outcome, files_to_update, field_name, additional_content, dates_data, temp_path, year_wise_date) ==
    LET f == Head(all_files)
        continue(r, flag) ==
            IF r.error # ""
            THEN [error |-> r.error, disk |-> [d EXCEPT ![f] = r.file],
                  outcome |-> [outcome EXCEPT ![f] = r.error]]
            ELSE update_loop_from(Tail(all_files), [d EXCEPT ![f] = r.file],
                                  [outcome EXCEPT ![f] = "ok"],
                                  files_to_update, field_name,
                                  additional_content, dates_data, temp_path, flag)
        visit(filename) ==
            IF ~any_chunk_in(files_to_update, filename)
            THEN update_loop_from(Tail(all_files), d, [outcome EXCEPT ![f] = "skipped"],
                                  files_to_update, field_name, additional_content,
                                  dates_data, temp_path, year_wise_date)
            ELSE continue(new_config_file(d[f], field_name, additional_content,
                            [year_wise_date |-> year_wise_date \/ year_wise(filename),
                             first_day |-> dates_data.first_day,
                             last_day  |-> dates_data.last_day,
                             sl_year   |-> dates_data.sl_year,
                             sl_month  |-> dates_data.sl_month],
                            temp_path),
                          year_wise_date \/ year_wise(filename))
    IN  IF all_files = <<>>
        THEN [error |-> "", disk |-> d, outcome |-> outcome]
        ELSE visit(path_str(f))

\* update_loop without the reset of year_wise_date at the top of the loop
update_loop_without_reset(all_files, d, outcome, files_to_update, field_name, additional_content, dates_data, temp_path) ==
    update_loop_from(all_files, d, outcome, files_to_update, field_name,
                     additional_content, dates_data, temp_path, FALSE)

RECURSIVE update_loop(_, _, _, _, _, _, _, _)
\* the loop over all_files; an error raised by new_config_file ends the run
update_loop(all_files, d, outcome, files_to_update, field_name, additional_content, dates_data, temp_path) ==
    LET f == Head(all_files)
        continue(r) ==
            IF r.error # ""
            THEN [error |-> r.error, disk |-> [d EXCEPT ![f] = r.file],
                  outcome |-> [outcome EXCEPT ![f] = r.error]]
            ELSE update_loop(Tail(all_files), [d EXCEPT ![f] = r.file],
                             [outcome EXCEPT ![f] = "ok"],
                             files_to_update, field_name,
                             additional_content, dates_data, temp_path)
        visit(filename) ==
            IF ~any_chunk_in(files_to_update, filename)
            THEN update_loop(Tail(all_files), d, [outcome EXCEPT ![f] = "skipped"],
                             files_to_update, field_name, additional_content,
                             dates_data, temp_path)
            ELSE continue(new_config_file(d[f], field_name, additional_content,
                            [year_wise_date |-> year_wise(filename),
                             first_day |-> dates_data.first_day,
                             last_day  |-> dates_data.last_day,
                             sl_year   |-> dates_data.sl_year,
                             sl_month  |-> dates_data.sl_month],
                            temp_path))
    IN  IF all_files = <<>>
        THEN [error |-> "", disk |-> d, outcome |-> outcome]
        ELSE visit(path_str(f))

\* The files update_config_file globs for.
discovered(d, directory, m) ==
    glob(d, directory, IF m = ERA5 THEN <<"*">> ELSE m)

\* update_config_file on disk d, where today is t, the environment is environ,
\* the references in `down` do not resolve and glob lists all_files in that order.
update_config_file(d, directory, field_name, m, temp_path, environ, down, t, all_files) ==
    LET outcome0 == [f \in DOMAIN d |->
                        IF \E i \in 1..Len(all_files) : all_files[i] = f
                        THEN "unreached" ELSE "undiscovered"]
        run(dates_data, files_to_update, additional_content) ==
            IF additional_content.error # ""
            THEN [error |-> additional_content.error, disk |-> d, outcome |-> outcome0]
            ELSE update_loop(all_files, d, outcome0, files_to_update, field_name,
                             additional_content.text, dates_data, temp_path)
    IN  run(get_previous_month_dates(m, t), FILES_TO_UPDATE(m),
            generate_additional_content(environ, down))

-----------------------------------------------------------------------------
(* Credential cleanup.                                                     *)

RECURSIVE remove_loop_inclusive(_, _, _)
\* the loop over range(num_licenses + 1)
remove_loop_inclusive(config, license_number, num_licenses) ==
    IF license_number > num_licenses THEN config
    ELSE remove_loop_inclusive(
            remove_section(config, S_parameters_api \o int_str(license_number)),
            license_number + 1, num_licenses)

RECURSIVE remove_loop(_, _, _)
\* for license_number in range(license_number, num_licenses): remove_section
remove_loop(config, license_number, num_licenses) ==
    IF license_number >= num_licenses THEN config
    ELSE remove_loop(remove_section(config, S_parameters_api \o int_str(license_number)),
                     license_number + 1, num_licenses)

RECURSIVE remove_loop_from(_, _, _)
remove_loop_from(config, license_number, num_licenses) ==
    IF license_number >= num_licenses THEN config
    ELSE remove_loop_from(
            remove_section(config, S_parameters_api \o int_str(license_number)),
            license_number + 1, num_licenses)

\* remove_license_from_config_file over range(1, num_licenses)
remove_license_from_config_file_from_one(config_file, num_licenses) ==
    written(remove_loop_from(config_file.sections, 1, num_licenses))

remove_license_from_config_file(config_file, num_licenses) ==
    written(remove_loop(config_file.sections, 0, num_licenses))

\* os.listdir(directory_path), the names that end with ".cfg"
listed(d, dir, sub) ==
    {f \in DOMAIN d : f.dir = dir /\ f.sub = sub /\ endswith(f.name, S_cfg)}

remove_licenses_from_directory(d, dir, sub, environ) ==
    LET each(num_licenses, filenames) ==
            [f \in DOMAIN d |->
                IF f \in filenames
                THEN remove_license_from_config_file(d[f], num_licenses)
                ELSE d[f]]
    IN  each(Len(get_api_keys(environ)), listed(d, dir, sub))

-----------------------------------------------------------------------------
(* The tree of config files the runs work on, as authored.                 *)

DirRaw == <<"r", "a", "w">>
DirTemplates == <<"t", "e", "m", "p", "l", "a", "t", "e", "s">>

File(dir, sub, name) == [dir |-> dir, sub |-> sub, name |-> name]

F_pl    == File(DirRaw, ERA5T_DAILY, <<"p", "l", ".", "c", "f", "g">>)
F_lnsp  == File(DirRaw, ERA5T_DAILY, <<"l", "n", "s", "p", ".", "c", "f", "g">>)
F_txt   == File(DirRaw, ERA5T_DAILY, <<"p", "l", ".", "t", "x", "t">>)
F_sfc   == File(DirRaw, ERA5T_MONTHLY, <<"s", "f", "c", ".", "c", "f", "g">>)
T_notes == File(DirTemplates, ERA5T_DAILY, <<"n", "o", "t", "e", "s", ".", "c", "f", "g">>)
T_sl_zs == File(DirTemplates, ERA5T_DAILY, <<"s", "l", "_", "z", "s", ".", "c", "f", "g">>)

Files == {F_pl, F_lnsp, F_txt, F_sfc, T_notes, T_sl_zs}

S_date == <<"d", "a", "t", "e">>
V_range == <<"1", "9", "7", "9", "-", "0", "1", "-", "0", "1", "/", "t", "o", "/",
             "1", "9", "7", "9", "-", "0", "1", "-", "3", "1">>

\* a config with a date range, whose target is below the public raw bucket
RangeConfig ==
    <<Section(S_parameters, <<Option(S_target_path, RAW_PREFIX \o <<"/", "p", "l">>)>>),
      Section(S_selection, <<Option(S_date, V_range)>>)>>

\* a config with year/month/day, whose target is in another bucket
YearConfig ==
    <<Section(S_parameters,
              <<Option(S_target_path, <<"g", "s", ":", "/", "/", "o", "/", "s", "f", "c">>)>>),
      Section(S_selection,
              <<Option(S_year, <<"1", "9", "7", "9">>), Option(S_month, <<"0", "1">>),
                Option(S_day, S_all)>>)>>

Authored(config) == [fmt |-> "authored", sections |-> config]

InitDisk ==
    [f \in Files |-> IF year_wise(f.name) THEN Authored(YearConfig) ELSE Authored(RangeConfig)]

-----------------------------------------------------------------------------
(* The inputs of the runs.                                                 *)

MaxSteps == 3
PriorRuns == 1

Day_a == Date(2024, 3, 10)
Day_b == Date(2024, 1, 3)

\* the day of the run that follows k runs: a month after the run before it
RunDay(k) == Date(2024, 3 + (k % 10), 10)

Var(name, value) == [name |-> name, value |-> value]

K_7      == <<"A", "P", "I", "_", "K", "E", "Y", "_", "7">>
K_0      == <<"A", "P", "I", "_", "K", "E", "Y", "_", "0">>
K_12     == <<"A", "P", "I", "_", "K", "E", "Y", "_", "1", "2">>
K_bare   == <<"A", "P", "I", "_", "K", "E", "Y", "_">>
K_suffix == <<"A", "P", "I", "_", "K", "E", "Y", "_", "1", "X">>
K_prefix == <<"M", "Y", "_", "A", "P", "I", "_", "K", "E", "Y", "_", "1">>

\* no credential; one, after a name that only looks like one; two, whose
\* order is not that of their digits, around a name that does not match
Env_0 == <<Var(K_prefix, "refA")>>
Env_1 == <<Var(K_bare, "refA"), Var(K_12, "refB")>>
Env_2 == <<Var(K_7, "refA"), Var(K_suffix, "refA"), Var(K_0, "refB")>>
\* two variables that name the same secret
Env_same == <<Var(K_0, "refB"), Var(K_7, "refB")>>

SeqEnvs == {Env_0, Env_1, Env_2}
RunEnvs == {<<>>, Env_0, Env_1, Env_2, Env_same}

TempPath == <<"g", "s", ":", "/", "/", "t", "m", "p">>

\* every order in which glob may list the set S
Orders(S) ==
    LET of_length(n) == {s \in [1..n -> S] : \A i, j \in 1..n : i # j => s[i] # s[j]}
    IN  of_length(Cardinality(S))

NoInjection == [f \in Files |-> [valid |-> FALSE, n |-> 0,
                                 before |-> InitDisk[f], after |-> InitDisk[f]]]

Init ==
    /\ disk = InitDisk
    /\ pre = InitDisk
    /\ inj = NoInjection
    /\ last = [op |-> "init", result |-> "", directory |-> <<>>, sub |-> <<>>,
               field_name |-> <<>>, temp_path |-> <<>>, environ |-> <<>>,
               down |-> {}, outcome |-> [f \in Files |-> "none"]]
    /\ steps = 0
    /\ today = Day_a
    /\ mode = ERA5
    /\ dates = NoDates

\* One run of update_config_file(directory, field_name, m, temp_path).
Update(directory, field_name, m, temp_path, environ, down, t) ==
    \E all_files \in Orders(discovered(disk, directory, m)) :
      \E r \in {update_config_file(disk, directory, field_name, m, temp_path,
                                   environ, down, t, all_files)} :
            /\ disk' = r.disk
            /\ pre' = disk
            /\ inj' = [f \in Files |->
                        IF r.outcome[f] = "ok"
                        THEN [valid |-> TRUE, n |-> Len(get_api_keys(environ)),
                              before |-> disk[f], after |-> r.disk[f]]
                        ELSE inj[f]]
            /\ last' = [op |-> "update", result |-> r.error, directory |-> directory,
                        sub |-> <<>>, field_name |-> field_name,
                        temp_path |-> temp_path, environ |-> environ,
                        down |-> down, outcome |-> r.outcome]
            /\ today' = t
            /\ mode' = m
            /\ dates' = get_previous_month_dates(m, t)

\* One run of remove_licenses_from_directory(f"{dir}/{sub}").
Strip(dir, sub, environ) ==
    /\ disk' = remove_licenses_from_directory(disk, dir, sub, environ)
    /\ pre' = disk
    /\ last' = [op |-> "strip", result |-> "", directory |-> dir, sub |-> sub,
                field_name |-> <<>>, temp_path |-> <<>>, environ |-> environ,
                down |-> {},
                outcome |-> [f \in Files |->
                                IF f \in listed(disk, dir, sub) THEN "stripped" ELSE "none"]]
    /\ UNCHANGED <<inj, today, mode, dates>>

\* Monthly runs on the raw tree in mode ERA5, the secret store up.
SeqUpdate ==
    \E temp_path \in {<<>>, TempPath}, environ \in SeqEnvs :
        Update(DirRaw, S_date, ERA5, temp_path, environ, {}, RunDay(steps))

SeqStrip ==
    \E sub \in {ERA5T_DAILY, ERA5T_MONTHLY}, environ \in SeqEnvs :
        Strip(DirRaw, sub, environ)

Next ==
    /\ steps < MaxSteps
    /\ steps' = steps + 1
    /\ (SeqUpdate \/ SeqStrip)

Spec == Init /\ [][Next]_vars

\* Any run: either tree, any mode, any field, a store that fails on some reference.
AnyUpdate ==
    \E directory \in {DirRaw, DirTemplates}, field_name \in {S_date, S_day},
       m \in ExecTypes, temp_path \in {<<>>, TempPath}, environ \in RunEnvs,
       down \in {{}, {"refA"}, {"refB"}}, t \in {Day_a, Day_b} :
        Update(directory, field_name, m, temp_path, environ, down, t)

AnyStrip ==
    \E dir \in {DirRaw, DirTemplates}, sub \in {ERA5T_DAILY, ERA5T_MONTHLY},
       environ \in RunEnvs :
        Strip(dir, sub, environ)

\* The runs before the one SpecRun is about: one credential, no temp_path.
PriorUpdate ==
    Update(DirRaw, S_date, ERA5, <<>>, Env_1, {}, RunDay(steps))

PriorStrip ==
    \E sub \in {ERA5T_DAILY, ERA5T_MONTHLY} : Strip(DirRaw, sub, Env_1)

\* SpecRun: up to PriorRuns such runs, then one run with any inputs.
NextRun ==
    \/ /\ steps < PriorRuns
       /\ steps' = steps + 1
       /\ (PriorUpdate \/ PriorStrip)
    \/ /\ steps <= PriorRuns
       /\ steps' = PriorRuns + 1
       /\ (AnyUpdate \/ AnyStrip)

SpecRun == Init /\ [][NextRun]_vars

-----------------------------------------------------------------------------
(* SpecDates: get_previous_month_dates on every day of FirstYear..LastYear *)
(* and every mode, with one mode that is none of the three.                *)

AllDays ==
    {x \in [year : FirstYear..LastYear, month : 1..12, day : 1..31] :
        x.day <= days_in_month(x.year, x.month)}

InitDates ==
    /\ disk = InitDisk
    /\ pre = InitDisk
    /\ inj = NoInjection
    /\ last = [op |-> "init", result |-> "", directory |-> <<>>, sub |-> <<>>,
               field_name |-> <<>>, temp_path |-> <<>>, environ |-> <<>>,
               down |-> {}, outcome |-> [f \in Files |-> "none"]]
    /\ steps = 0
    /\ today \in AllDays
    /\ mode \in ExecTypes \cup {OTHER_MODE}
    /\ dates = NoDates

ComputeDates ==
    /\ dates = NoDates
    /\ dates' = get_previous_month_dates(mode, today)
    /\ UNCHANGED <<disk, pre, inj, last, steps, today, mode>>

NextDates == ComputeDates

SpecDates == InitDates /\ [][NextDates]_vars

-----------------------------------------------------------------------------
(* The calendar, the ISO form of a date and the sections of a file, stated *)
(* on their own for the properties below.                                  *)

MonthLength(y, m) ==
    IF m \in {4, 6, 9, 11} THEN 30
    ELSE IF m # 2 THEN 31
    ELSE IF y % 400 = 0 \/ (y % 4 = 0 /\ y % 100 # 0) THEN 29 ELSE 28

NextDay(d) ==
    IF d.day < MonthLength(d.year, d.month) THEN Date(d.year, d.month, d.day + 1)
    ELSE IF d.month < 12 THEN Date(d.year, d.month + 1, 1)
    ELSE Date(d.year + 1, 1, 1)

RECURSIVE DaysLater(_, _)
\* the day k days after d, a month at a time
DaysLater(d, k) ==
    IF d.day + k <= MonthLength(d.year, d.month)
    THEN Date(d.year, d.month, d.day + k)
    ELSE DaysLater(NextDay(Date(d.year, d.month, MonthLength(d.year, d.month))),
                   k - (MonthLength(d.year, d.month) - d.day) - 1)

PrevDay(d) ==
    IF d.day > 1 THEN Date(d.year, d.month, d.day - 1)
    ELSE IF d.month > 1 THEN Date(d.year, d.month - 1, MonthLength(d.year, d.month - 1))
    ELSE Date(d.year - 1, 12, 31)

RECURSIVE DaysEarlier(_, _)
\* the day k days before d, a month at a time
DaysEarlier(d, k) ==
    IF k < d.day
    THEN Date(d.year, d.month, d.day - k)
    ELSE DaysEarlier(PrevDay(Date(d.year, d.month, 1)), k - d.day)

FirstOfMonth(y, m) == Date(y, m, 1)

LastOfMonth(y, m) == Date(y, m, MonthLength(y, m))

MonthBefore(y, m) == IF m = 1 THEN <<y - 1, 12>> ELSE <<y, m - 1>>

Digit(n) == DigitChars[n + 1]

FourDigits(n) ==
    <<Digit(n \div 1000), Digit((n \div 100) % 10), Digit((n \div 10) % 10), Digit(n % 10)>>

TwoDigits(n) == <<Digit(n \div 10), Digit(n % 10)>>

IsoDate(d) == FourDigits(d.year) \o <<"-">> \o TwoDigits(d.month) \o <<"-">> \o TwoDigits(d.day)

Computed == dates # NoDates

\* whether sub occurs in s
Occurs(sub, s) ==
    \E i \in 1..(Len(s) - Len(sub) + 1) : SubSeq(s, i, i + Len(sub) - 1) = sub

YearWiseFragments == {S_lnsp, S_zs, S_sfc}

RangeFragments ==
    {<<"d", "v", "e">>, <<"o", "3", "q">>, <<"q", "r", "q", "s">>, <<"t", "w">>,
     <<"p", "l">>, <<"s", "l">>}

Fragments(m) ==
    IF m = ERA5 THEN RangeFragments \cup YearWiseFragments
    ELSE IF m = ERA5T_DAILY THEN RangeFragments
    ELSE YearWiseFragments

HasOneOf(fragments, s) == \E chunk \in fragments : Occurs(chunk, s)

FullPath(f) == f.dir \o <<"/">> \o f.sub \o <<"/">> \o f.name

\* the files the last run of update_config_file found by its glob
Discovered(f) == last.op = "update" /\ last.outcome[f] # "undiscovered"

\* the name of the credential section of index i < 10
ApiSectionName(i) == S_parameters_api \o <<Digit(i)>>

ApiSectionNames == {ApiSectionName(i) : i \in 0..9}

SectionNames(file) == {file.sections[i].name : i \in 1..Len(file.sections)}

\* the indices i of the sections parameters.api<i> of a file
CredentialIndices(file) == {i \in 0..9 : ApiSectionName(i) \in SectionNames(file)}

CredentialSections(file) ==
    LET Keep(s) == s.name \in ApiSectionNames IN SelectSeq(file.sections, Keep)

OtherSections(file) ==
    LET Keep(s) == s.name \notin ApiSectionNames IN SelectSeq(file.sections, Keep)

\* the values a file holds for an option of a section: none or one
Values(file, section, key) ==
    UNION {{s.options[j].value : j \in {j \in 1..Len(s.options) : s.options[j].key = key}} :
              s \in {file.sections[i] : i \in {i \in 1..Len(file.sections) :
                                                  file.sections[i].name = section}}}

Unwritten(f, key) == Values(disk[f], S_selection, key) = Values(pre[f], S_selection, key)

YearMonthDayWritten(f) ==
    /\ Values(disk[f], S_selection, S_year) = {FourDigits(dates.first_day.year)}
    /\ Values(disk[f], S_selection, S_month) = {TwoDigits(dates.first_day.month)}
    /\ Values(disk[f], S_selection, S_day) = {S_all}

RangeWritten(f) ==
    Values(disk[f], S_selection, last.field_name)
        = {IsoDate(dates.first_day) \o S_to \o IsoDate(dates.last_day)}

\* the options of selection that a run may be asked to write, or has
SelectionKeys == {S_year, S_month, S_day, S_date}

\* the names of the environment that match ^API_KEY_\d+$, among those used
MatchingNames == {K_7, K_0, K_12}

\* the secret references of the matching variables, in the order of the environment
MatchedReferences(environ) ==
    LET Matches(v) == v.name \in MatchingNames
        matched == SelectSeq(environ, Matches)
    IN  [i \in 1..Len(matched) |-> matched[i].value]

CredentialCount(environ) == Len(MatchedReferences(environ))

\* the section the i-th matched reference (from 0) is to produce
ExpectedCredential(environ, i) ==
    Section(ApiSectionName(i),
            <<Option(S_api_url, SecretStore[MatchedReferences(environ)[i + 1]].api_url),
              Option(S_api_key, SecretStore[MatchedReferences(environ)[i + 1]].api_key)>>)

\* new_config_file ran on f in the last run
Called(f) ==
    last.op = "update"
        /\ last.outcome[f] \notin {"none", "undiscovered", "skipped", "unreached"}

Stripped(f) == last.op = "strip" /\ last.outcome[f] = "stripped"

\* f went through an injection of n credentials and then, with nothing in
\* between, through a strip with count n
RoundTrip(f) ==
    /\ Stripped(f)
    /\ inj[f].valid
    /\ pre[f] = inj[f].after
    /\ CredentialCount(last.environ) = inj[f].n

-----------------------------------------------------------------------------
(* The window calculator (SpecDates).                                      *)

\* C1, as stated: in mode ERA5 and in any mode other than ERA5T_DAILY and
\* ERA5T_MONTHLY the window is the calendar month that contains today - 61 days.
C1_WindowIsAnchorMonth ==
    (Computed /\ mode \notin {ERA5T_DAILY, ERA5T_MONTHLY}) =>
        LET anchor == DaysEarlier(today, 61)
        IN  /\ dates.first_day = FirstOfMonth(anchor.year, anchor.month)
            /\ dates.last_day = LastOfMonth(anchor.year, anchor.month)

\* C1, amended: in those modes the window is the calendar month BEFORE the
\* month that contains today - 61 days; today = 2024-03-10 gives the anchor
\* 2024-01-09 and the window 2023-12-01 .. 2023-12-31.
C1_WindowIsMonthBeforeAnchor ==
    (Computed /\ mode \notin {ERA5T_DAILY, ERA5T_MONTHLY}) =>
        LET anchor == DaysEarlier(today, 61)
            before == MonthBefore(anchor.year, anchor.month)
        IN  /\ dates.first_day = FirstOfMonth(before[1], before[2])
            /\ dates.last_day = LastOfMonth(before[1], before[2])
            /\ today = Date(2024, 3, 10) =>
                    /\ anchor = Date(2024, 1, 9)
                    /\ dates.first_day = Date(2023, 12, 1)
                    /\ dates.last_day = Date(2023, 12, 31)

C1_Witness ==
    /\ mode = ERA5
    /\ today = Date(2024, 3, 10)
    /\ dates.first_day = Date(2023, 12, 1)
    /\ dates.last_day = Date(2023, 12, 31)

\* C2: in mode ERA5T_MONTHLY the window is the whole calendar month before
\* today's month (December of the year before, in January), and sl_year and
\* sl_month are the 4 digits of its year and the 2 digits of its month;
\* today = 2024-03-15 gives 2024-02-01 .. 2024-02-29.
C2_MonthlyIsPreviousMonth ==
    (Computed /\ mode = ERA5T_MONTHLY) =>
        LET before == MonthBefore(today.year, today.month)
        IN  /\ dates.first_day = FirstOfMonth(before[1], before[2])
            /\ dates.last_day = LastOfMonth(before[1], before[2])
            /\ dates.sl_year = FourDigits(before[1])
            /\ dates.sl_month = TwoDigits(before[2])
            /\ today = Date(2024, 3, 15) =>
                    /\ dates.first_day = Date(2024, 2, 1)
                    /\ dates.last_day = Date(2024, 2, 29)

C2_Witness ==
    /\ mode = ERA5T_MONTHLY
    /\ today = Date(2024, 1, 15)
    /\ dates.first_day = Date(2023, 12, 1)
    /\ dates.last_day = Date(2023, 12, 31)
    /\ dates.sl_year = <<"2", "0", "2", "3">>
    /\ dates.sl_month = <<"1", "2">>

\* C7: in mode ERA5T_DAILY first_day and last_day are both the day 6 days
\* before today, across the ends of months and years, and sl_year and
\* sl_month are that day's; today = 2024-03-10 gives 2024-03-04.
C7_DailyIsSixDaysBack ==
    (Computed /\ mode = ERA5T_DAILY) =>
        /\ dates.first_day = dates.last_day
        /\ dates.first_day \in AllDays
               \cup {Date(FirstYear - 1, 12, d) : d \in 26..31}
        /\ DaysLater(dates.first_day, 6) = today
        /\ dates.sl_year = FourDigits(dates.first_day.year)
        /\ dates.sl_month = TwoDigits(dates.first_day.month)
        /\ today = Date(2024, 3, 10) => dates.first_day = Date(2024, 3, 4)

C7_Witness ==
    /\ mode = ERA5T_DAILY
    /\ today = Date(2024, 1, 3)
    /\ dates.first_day = Date(2023, 12, 28)
    /\ dates.last_day = Date(2023, 12, 28)
    /\ dates.sl_year = <<"2", "0", "2", "3">>
    /\ dates.sl_month = <<"1", "2">>

-----------------------------------------------------------------------------
(* One run of update_config_file (SpecRun).                                *)

\* C3: after a run of update_config_file, a discovered file whose name holds
\* none of the fragments of the mode is exactly as it was before the run,
\* whatever the root directory is called.
C3_UnmatchedNameUntouched ==
    \A f \in Files :
        (Discovered(f) /\ ~HasOneOf(Fragments(mode), f.name)) => disk[f] = pre[f]

\* C4, as stated, for the field name "date": after a run that returned,
\* every discovered file whose name holds lnsp, zs or sfc has year, month and
\* day = "all" set and its range field not written, and every other file
\* whose name holds a fragment of the mode has the range field set and year,
\* month and day not written.
C4_YearWiseByName ==
    (last.op = "update" /\ last.result = "" /\ last.field_name = S_date) =>
        \A f \in Files :
            Discovered(f) =>
                IF HasOneOf(YearWiseFragments, f.name)
                THEN YearMonthDayWritten(f) /\ Unwritten(f, last.field_name)
                ELSE HasOneOf(Fragments(mode), f.name) =>
                        /\ RangeWritten(f)
                        /\ \A key \in {S_year, S_month, S_day} : Unwritten(f, key)

\* C4, amended: after a run that returned, every discovered file whose path
\* holds a fragment of the mode has: year, month and day = "all" set and no
\* other option of selection written when its path holds lnsp, zs or sfc;
\* the range field set and no other option of selection written otherwise.
\* A discovered file whose path holds no fragment of the mode has none of
\* them written.
C4_YearWiseAmongEligible ==
    (last.op = "update" /\ last.result = "") =>
        \A f \in Files :
            Discovered(f) =>
                IF ~HasOneOf(Fragments(mode), FullPath(f))
                THEN \A key \in SelectionKeys : Unwritten(f, key)
                ELSE IF HasOneOf(YearWiseFragments, FullPath(f))
                THEN /\ YearMonthDayWritten(f)
                     /\ \A key \in SelectionKeys \ {S_year, S_month, S_day} : Unwritten(f, key)
                ELSE /\ RangeWritten(f)
                     /\ \A key \in SelectionKeys \ {last.field_name} : Unwritten(f, key)

\* a run in mode ERA5 wrote the range of one file and the year, month and
\* day of another
C4_Witness ==
    /\ last.op = "update"
    /\ last.result = ""
    /\ mode = ERA5
    /\ last.directory = DirRaw
    /\ last.field_name = S_date
    /\ last.outcome[F_lnsp] = "ok"
    /\ last.outcome[F_pl] = "ok"
    /\ YearMonthDayWritten(F_lnsp)
    /\ RangeWritten(F_pl)
    /\ disk[F_pl] # pre[F_pl]

\* C6: every file a run has written has, after the sections it had, one
\* section per environment variable whose name matches ^API_KEY_\d+$:
\* parameters.api0 .. parameters.api(N-1) in the order of the environment,
\* each with api_url and api_key of the secret its variable's value names.
C6_OneSectionPerMatchedVariable ==
    last.op = "update" =>
        \A f \in Files :
            last.outcome[f] = "ok" =>
                LET n == CredentialCount(last.environ)
                    had == Len(pre[f].sections)
                IN  /\ Len(disk[f].sections) = had + n
                    /\ \A i \in 1..had : disk[f].sections[i].name = pre[f].sections[i].name
                    /\ \A i \in 0..(n - 1) :
                            disk[f].sections[had + i + 1]
                                = ExpectedCredential(last.environ, i)

\* API_KEY_7 comes before API_KEY_0: parameters.api0 is API_KEY_7's secret
C6_Witness ==
    /\ last.op = "update"
    /\ last.environ = Env_2
    /\ last.outcome[F_pl] = "ok"
    /\ Len(disk[F_pl].sections) = 4
    /\ disk[F_pl].sections[3] =
            Section(ApiSectionName(0),
                    <<Option(S_api_url, SecretStore.refA.api_url),
                      Option(S_api_key, SecretStore.refA.api_key)>>)
    /\ disk[F_pl].sections[4].name = ApiSectionName(1)

\* C8: when the reference of a matched variable does not resolve, the run
\* ends with that error and no file is changed.
C8_FailedSecretChangesNothing ==
    (last.op = "update"
        /\ \E i \in 1..CredentialCount(last.environ) :
                MatchedReferences(last.environ)[i] \in last.down) =>
        /\ last.result = "SecretResolutionError"
        /\ disk = pre
        /\ \A f \in Files : ~Called(f)

\* the first secret resolved, the second did not, and files were eligible
C8_Witness ==
    /\ last.op = "update"
    /\ last.environ = Env_2
    /\ last.down = {"refB"}
    /\ mode = ERA5
    /\ last.directory = DirRaw
    /\ last.result = "SecretResolutionError"
    /\ last.outcome[F_pl] = "unreached"
    /\ disk = pre

-----------------------------------------------------------------------------
(* Sequences of runs (Spec).                                               *)

\* C5, as stated: an injection of N credentials followed by a strip with
\* count N leaves the file without any parameters.api<i> section, and every
\* other section as the injection left it.
C5_RoundTripLeavesNone ==
    \A f \in Files :
        RoundTrip(f) =>
            /\ CredentialIndices(disk[f]) = {}
            /\ OtherSections(disk[f]) = OtherSections(inj[f].after)

\* C5, amended: an injection of N credentials followed by a strip with count
\* N leaves the file with the parameters.api<i> sections it held before the
\* injection (all of index >= N; none when it held none), and every other
\* section as the injection left it.
C5_RoundTripRestoresCredentials ==
    \A f \in Files :
        RoundTrip(f) =>
            /\ CredentialSections(disk[f]) = CredentialSections(inj[f].before)
            /\ \A i \in CredentialIndices(disk[f]) : i >= inj[f].n
            /\ CredentialIndices(inj[f].before) = {} => CredentialIndices(disk[f]) = {}
            /\ OtherSections(disk[f]) = OtherSections(inj[f].after)

\* two credentials went into a file that had none, and came out
C5_Witness ==
    /\ RoundTrip(F_pl)
    /\ inj[F_pl].n = 2
    /\ CredentialIndices(inj[F_pl].before) = {}
    /\ CredentialIndices(pre[F_pl]) = {0, 1}
    /\ CredentialIndices(disk[F_pl]) = {}

\* C9: with N >= 1 credentials, new_config_file on a file that holds a
\* section parameters.api<i> with i < N raises DuplicateSectionError, which
\* ends the run, and the file is exactly as it was.
C9_DuplicateLeavesFile ==
    \A f \in Files :
        (Called(f)
            /\ \E i \in CredentialIndices(pre[f]) : i < CredentialCount(last.environ)) =>
            /\ last.outcome[f] = "DuplicateSectionError"
            /\ last.result = "DuplicateSectionError"
            /\ disk[f] = pre[f]

\* a second run, a month later and with a temp_path, found the credentials
\* of the first in pl.cfg after it had rewritten sfc.cfg
C9_Witness ==
    /\ last.op = "update"
    /\ last.temp_path = TempPath
    /\ last.outcome[F_pl] = "DuplicateSectionError"
    /\ last.outcome[F_sfc] = "ok"
    /\ disk[F_pl] = pre[F_pl]
    /\ Occurs(RAW_PREFIX, config_get(pre[F_pl].sections, S_parameters, S_target_path))
    /\ Values(pre[F_pl], S_selection, S_date)
            # {IsoDate(dates.first_day) \o S_to \o IsoDate(dates.last_day)}

\* C10: a strip with count M of a file that holds parameters.api0 ..
\* parameters.api(N-1) does not raise, removes the sections of index below
\* min(M, N), leaves those of index M .. N-1 as they were, and leaves every
\* other section as it was.
C10_StripRemovesBelowCount ==
    last.op = "strip" =>
        /\ last.result = ""
        /\ \A f \in Files :
            IF Stripped(f)
            THEN \A n \in 0..10 :
                    CredentialIndices(pre[f]) = 0..(n - 1) =>
                        LET m == CredentialCount(last.environ)
                            Kept(s) == s.name \in {ApiSectionName(i) : i \in m..(n - 1)}
                        IN  /\ CredentialIndices(disk[f]) = m..(n - 1)
                            /\ CredentialSections(disk[f])
                                    = SelectSeq(CredentialSections(pre[f]), Kept)
                            /\ OtherSections(disk[f]) = OtherSections(pre[f])
            ELSE disk[f] = pre[f]

\* a strip with count 1 of a file with two credentials left the second
C10_Witness ==
    /\ Stripped(F_pl)
    /\ CredentialCount(last.environ) = 1
    /\ CredentialIndices(pre[F_pl]) = {0, 1}
    /\ CredentialIndices(disk[F_pl]) = {1}

====
